---- MODULE Spec2Model ----
(***************************************************************************)
(* Model of the record store inside HistoryManager (historyManager.py):    *)
(* the in-memory list self.history, the page counter self.display_count,   *)
(* the search bar text, the backing JSON file, and what the last           *)
(* refresh_history_list put on screen (table rows, load-more button,       *)
(* empty label).                                                           *)
(*                                                                         *)
(* Strings are sequences of one-character strings.  A dict value is a      *)
(* Field: k = "str" (a Python str, v its characters), k = "none" (a JSON   *)
(* value that is not a string, such as null) or k = "absent" (the key is   *)
(* not in the dict).  A list element is an Item: a dict with the two keys  *)
(* the program reads, or something that is not a dict.                     *)
(***************************************************************************)
EXTENDS Integers, Sequences, FiniteSets, TLC

VARIABLES
    file,            \* content of download_history.json
    history,         \* self.history when it is a list
    history_type,    \* Python type of self.history: "list", "dict", "int"
    display_count,   \* self.display_count
    text,            \* self.search_bar.text()
    table,           \* records shown as table rows, top row first
    load_more,       \* self.load_more_btn is visible
    empty_label,     \* self.empty_label is visible
    fault,           \* an exception left the handler (the process is gone)
    none_as_str,     \* the Qt binding in use takes None where it expects a str
    write_failed,    \* some save_history since start-up swallowed an error
    last,            \* the last handler that did something, with its arguments
    steps            \* number of handlers run so far that did something

vars == <<file, history, history_type, display_count, text, table,
          load_more, empty_label, fault, none_as_str, write_failed, last,
          steps>>

\* ------------------------------------------------------------------ bounds

MaxSteps == 3

MAX_VISIBLE == 15

\* ----------------------------------------------------------------- strings

Min(a, b) == IF a < b THEN a ELSE b

Max(a, b) == IF a > b THEN a ELSE b

\* str.lower() on one character
LowerChar(c) ==
    CASE c = "A" -> "a"
      [] c = "B" -> "b"
      [] OTHER -> c

\* str.lower()
Lower(s) == [i \in 1..Len(s) |-> LowerChar(s[i])]

IsSpace(c) == c = " "

RECURSIVE LStrip(_)
LStrip(s) == IF s # <<>> /\ IsSpace(Head(s)) THEN LStrip(Tail(s)) ELSE s

RECURSIVE RStrip(_)
RStrip(s) ==
    IF s # <<>> /\ IsSpace(s[Len(s)])
    THEN RStrip(SubSeq(s, 1, Len(s) - 1))
    ELSE s

\* str.strip()
Strip(s) == RStrip(LStrip(s))

\* Python's `sub in s` on strings
Contains(sub, s) ==
    \E i \in 0..(Len(s) - Len(sub)) : SubSeq(s, i + 1, i + Len(sub)) = sub

\* list[::-1]
Reverse(s) == [i \in 1..Len(s) |-> s[Len(s) + 1 - i]]

\* list.pop(i), i counted from 1
RemoveAt(s, i) == SubSeq(s, 1, i - 1) \o SubSeq(s, i + 1, Len(s))

\* ------------------------------------------------------------------- dicts

StrField(s) == [k |-> "str", v |-> s]

NoneField == [k |-> "none", v |-> <<>>]

AbsentField == [k |-> "absent", v |-> <<>>]

\* {"url": url, "status": status}
Dict(u, s) == [isdict |-> TRUE, url |-> u, status |-> s]

\* a list element that is not a dict (a number, say)
NonDict == [isdict |-> FALSE, url |-> AbsentField, status |-> AbsentField]

Rec(u, s) == Dict(StrField(u), StrField(s))

\* item.get("url") / item.get("status"): None when the key is absent
GetUrl(item) == IF item.url.k = "absent" THEN NoneField ELSE item.url

GetStatus(item) == IF item.status.k = "absent" THEN NoneField ELSE item.status

\* item.get("url", "") / item.get("status", "")
GetUrlOrEmpty(item) == IF item.url.k = "absent" THEN StrField(<<>>) ELSE item.url

GetStatusOrEmpty(item) ==
    IF item.status.k = "absent" THEN StrField(<<>>) ELSE item.status

\* ---------------------------------------------------------- the JSON file
(***************************************************************************)
(* The file is missing, is empty, holds text json.load rejects            *)
(* ("garbage"), or holds a JSON value.  json.load rejects the empty file   *)
(* too.  A JSON value is an array of elements, or another kind of *)
(* value (an object, a number).  An element is an object, written as its   *)
(* members in order, or a number.  A member's value is a string or null.   *)
(***************************************************************************)

MissingFile == [kind |-> "missing", top |-> "none", elems |-> <<>>]

GarbageFile == [kind |-> "garbage", top |-> "none", elems |-> <<>>]

\* the file open(HISTORY_FILE, "w") leaves before anything is written
EmptyFile == [kind |-> "empty", top |-> "none", elems |-> <<>>]

ArrayFile(elems) == [kind |-> "json", top |-> "array", elems |-> elems]

ObjectFile == [kind |-> "json", top |-> "object", elems |-> <<>>]

NumberFile == [kind |-> "json", top |-> "number", elems |-> <<>>]

JString(s) == [t |-> "string", s |-> s]

JNull == [t |-> "null", s |-> <<>>]

Member(key, val) == [key |-> key, val |-> val]

JObject(members) == [t |-> "object", members |-> members]

JNumber == [t |-> "number", members |-> <<>>]

\* json.load on a member's value
LoadField(val) == IF val.t = "string" THEN StrField(val.s) ELSE NoneField

\* the value json.load leaves under `key`: the last member with that key
LoadKey(members, key) ==
    LET at == {i \in 1..Len(members) : members[i].key = key}
    IN  IF at = {} THEN AbsentField
        ELSE LoadField(members[CHOOSE i \in at : \A j \in at : j <= i].val)

\* json.load on an element of the array
LoadItem(e) ==
    IF e.t = "object"
    THEN Dict(LoadKey(e.members, "url"), LoadKey(e.members, "status"))
    ELSE NonDict

\* json.load(f) on a file json accepts: the Python value's type and, for a
\* list, its elements
JsonLoad(f) ==
    IF f.top = "array"
    THEN [type |-> "list", items |-> [i \in 1..Len(f.elems) |-> LoadItem(f.elems[i])]]
    ELSE [type |-> IF f.top = "object" THEN "dict" ELSE "int", items |-> <<>>]

\* json.dump on a dict value
DumpField(fld) == IF fld.k = "str" THEN JString(fld.v) ELSE JNull

\* json.dump writing both keys whether or not the dict has them
DumpItemFilled(item) ==
    IF item.isdict
    THEN JObject(<<Member("url", DumpField(item.url)),
                   Member("status", DumpField(item.status))>>)
    ELSE JNumber

\* json.dump on a list element: the keys the dict has, "url" first
DumpItem(item) ==
    IF item.isdict
    THEN JObject(
            (IF item.url.k = "absent" THEN <<>>
             ELSE <<Member("url", DumpField(item.url))>>)
         \o (IF item.status.k = "absent" THEN <<>>
             ELSE <<Member("status", DumpField(item.status))>>))
    ELSE JNumber

\* json.dump(self.history, f, ...)
JsonDump(h) == ArrayFile([i \in 1..Len(h) |-> DumpItem(h[i])])

\* load_history, lines 151-157: what self.history becomes
LoadedHistory(f) ==
    IF f.kind = "json" THEN JsonLoad(f) ELSE [type |-> "list", items |-> <<>>]

\* ------------------------------------------------------- query and render

\* self.search_bar.text().strip().lower()
Query(t) == Lower(Strip(t))

\* first index (from 0) of the slice h[-dc:] of a list of length n
PageStart(n, dc) ==
    IF dc = 0 THEN 0
    ELSE IF dc > 0 THEN Max(n - dc, 0)
    ELSE Min(-dc, n)

\* line 177 without [::-1]
PageUnreversed(h, dc) == SubSeq(h, PageStart(Len(h), dc) + 1, Len(h))

\* self.history[-self.display_count:][::-1]
Page(h, dc) == Reverse(SubSeq(h, PageStart(Len(h), dc) + 1, Len(h)))

\* query in item.get("url", "").lower() or query in item.get("status", "").lower()
Matches(item, q) ==
    \/ Contains(q, Lower(GetUrlOrEmpty(item).v))
    \/ Contains(q, Lower(GetStatusOrEmpty(item).v))

\* the filter expression raises: .get on a non-dict, .lower() on a non-str
FilterRaises(item, q) ==
    \/ ~item.isdict
    \/ GetUrlOrEmpty(item).k # "str"
    \/ /\ ~Contains(q, Lower(GetUrlOrEmpty(item).v))
       /\ GetStatusOrEmpty(item).k # "str"

\* building the row raises: .get on a non-dict; QTableWidgetItem/setToolTip
\* given None, under a binding that rejects it (one that accepts it shows an
\* empty cell)
RenderRaises(item) ==
    \/ ~item.isdict
    \/ /\ ~none_as_str
       /\ \/ GetUrlOrEmpty(item).k # "str"
          \/ GetStatusOrEmpty(item).k # "str"

\* lines 177-183 and 247-253: the list comprehension raises
ShowItemsRaises(h, dc, q) ==
    q # <<>> /\ \E i \in 1..Len(Page(h, dc)) : FilterRaises(Page(h, dc)[i], q)

\* lines 177-183 with the test of `query` inverted
ShowItemsInverted(h, dc, q) ==
    IF q = <<>>
    THEN SelectSeq(Page(h, dc), LAMBDA item : Matches(item, q))
    ELSE Page(h, dc)

\* lines 177-183 and 247-253: show_items
ShowItems(h, dc, q) ==
    IF q # <<>>
    THEN SelectSeq(Page(h, dc), LAMBDA item : Matches(item, q))
    ELSE Page(h, dc)

\* line 217 without `and not query`
LoadMoreVisibleAnyQuery(dc, n, q) == dc < n

\* line 217: the argument of load_more_btn.setVisible
LoadMoreVisible(dc, n, q) == dc < n /\ q = <<>>

\* refresh_history_list: the widgets after the call, and whether it raised.
\* pm and pe are the load-more button's and the empty label's visibility
\* before the call.
Refresh(htype, h, dc, t, pm, pe) ==
    LET q == Query(t)
        show == ShowItems(h, dc, q)
        bad == {i \in 1..Len(show) : RenderRaises(show[i])}
        firstbad == CHOOSE i \in bad : \A j \in bad : i <= j
    IN  IF htype # "list" \/ ShowItemsRaises(h, dc, q)
        THEN [fault |-> TRUE, table |-> <<>>, load_more |-> pm, empty_label |-> pe]
        ELSE IF show = <<>>
        THEN [fault |-> FALSE, table |-> <<>>, load_more |-> FALSE,
              empty_label |-> TRUE]
        ELSE IF bad # {}
        THEN [fault |-> TRUE, table |-> SubSeq(show, 1, firstbad - 1),
              load_more |-> pm, empty_label |-> FALSE]
        ELSE [fault |-> FALSE, table |-> show,
              load_more |-> LoadMoreVisible(dc, Len(h), q),
              empty_label |-> FALSE]

\* ------------------------------------------------------------------ inputs

uA == <<"a">>

uB == <<"b">>

uAb == <<"A", "b">>

sOk == <<"o", "k">>

sB == <<"B">>

\* a well-formed element of the file
JRec(u, s) == JObject(<<Member("url", JString(u)), Member("status", JString(s))>>)

\* three records, no two alike
SmallElems == <<JRec(uA, sOk), JRec(uB, sB), JRec(uAb, sOk)>>

\* n equal records
Copies(n) == [i \in 1..n |-> JRec(uB, sB)]

\* one more record than a page holds; only the oldest holds an "a"
BigElems == <<JRec(uAb, sOk)>> \o Copies(MAX_VISIBLE)

\* as BigElems, behind a number that is the oldest element
HiddenNumberElems == <<JNumber>> \o BigElems

\* as BigElems, behind a record whose url is null
HiddenNullElems ==
    <<JObject(<<Member("url", JNull), Member("status", JString(sOk))>>)>>
    \o BigElems

\* what download_history.json may hold when the program starts
InitFiles ==
    { MissingFile, GarbageFile, ObjectFile, NumberFile,
      ArrayFile(<<>>),
      ArrayFile(<<JNumber>>),
      ArrayFile(<<JObject(<<Member("url", JString(uA))>>)>>),
      ArrayFile(SmallElems),
      ArrayFile(BigElems),
      ArrayFile(HiddenNumberElems),
      ArrayFile(HiddenNullElems) }

\* arguments of add_to_history: <<url, status>>
AddInputs == { <<uA, sOk>>, <<uAb, sB>> }

\* what the user may type into the search bar
SearchTexts == { <<>>, <<" ">>, <<"a">>, <<" ", "A", " ">> }

\* rows the user may right-click in a table of n rows (the newest two and
\* the oldest shown), and the indices just outside it
ViewRows(n) == {-1, 0, 1, n - 1, n}

NoArgs == [op |-> "none", idx |-> 0, url |-> <<>>, status |-> <<>>]

\* ----------------------------------------------------------------- actions

\* __init__ lines 117-119 with load_history: the fields and widgets once
\* the constructor has run on file f.  The search bar is empty, the empty
\* label was hidden (line 83) and the button was never hidden.
Constructed(f) ==
    LET got == LoadedHistory(f)
        r == Refresh(got.type, got.items, MAX_VISIBLE, <<>>, TRUE, FALSE)
    IN  [history |-> got.items, history_type |-> got.type, r |-> r]

Init ==
    \E f \in InitFiles :
        /\ none_as_str \in BOOLEAN
        /\ file = f
        /\ history = Constructed(f).history
        /\ history_type = Constructed(f).history_type
        /\ display_count = MAX_VISIBLE
        /\ text = <<>>
        /\ table = Constructed(f).r.table
        /\ load_more = Constructed(f).r.load_more
        /\ empty_label = Constructed(f).r.empty_label
        /\ fault = Constructed(f).r.fault
        /\ write_failed = FALSE
        /\ last = [NoArgs EXCEPT !.op = "load"]
        /\ steps = 0

\* the program is started again and reads the file it left behind
Restart ==
    /\ steps < MaxSteps
    /\ steps' = steps + 1
    /\ history' = Constructed(file).history
    /\ history_type' = Constructed(file).history_type
    /\ display_count' = MAX_VISIBLE
    /\ text' = <<>>
    /\ table' = Constructed(file).r.table
    /\ load_more' = Constructed(file).r.load_more
    /\ empty_label' = Constructed(file).r.empty_label
    /\ fault' = Constructed(file).r.fault
    /\ write_failed' = FALSE
    /\ last' = [NoArgs EXCEPT !.op = "load"]
    /\ UNCHANGED <<file, none_as_str>>

\* the widgets after refresh_history_list on the new fields
Rendered(h, dc, t) ==
    LET r == Refresh(history_type, h, dc, t, load_more, empty_label)
    IN  /\ table' = r.table
        /\ load_more' = r.load_more
        /\ empty_label' = r.empty_label
        /\ fault' = r.fault

\* how a save_history may end: the file is rewritten ("written"); open
\* raises and the file is left as it was ("unopened"); open truncates the
\* file and the write raises before anything reaches it ("truncated") or
\* after part of the text has ("partial")
WriteOutcomes == {"written", "unopened", "truncated", "partial"}

\* save_history: the file after the call; every error is swallowed
Saved(h, w) ==
    /\ file' = CASE w = "written" -> JsonDump(h)
                 [] w = "unopened" -> file
                 [] w = "truncated" -> EmptyFile
                 [] OTHER -> GarbageFile
    /\ write_failed' = (write_failed \/ w # "written")

\* search_bar.textChanged -> refresh_history_list
SearchChanged(t) ==
    /\ ~fault
    /\ steps < MaxSteps
    /\ t # text
    /\ steps' = steps + 1
    /\ text' = t
    /\ Rendered(history, display_count, t)
    /\ last' = [NoArgs EXCEPT !.op = "search"]
    /\ UNCHANGED <<file, history, history_type, display_count, write_failed,
                   none_as_str>>

\* show_more_history
show_more_history ==
    /\ ~fault
    /\ steps < MaxSteps
    /\ steps' = steps + 1
    /\ display_count' = display_count + MAX_VISIBLE
    /\ Rendered(history, display_count', text)
    /\ last' = [NoArgs EXCEPT !.op = "more"]
    /\ UNCHANGED <<file, history, history_type, text, write_failed, none_as_str>>

\* clear_history; yes is the answer to the confirmation dialog
clear_history(yes, w) ==
    /\ ~fault
    /\ steps < MaxSteps
    /\ IF yes
       THEN /\ steps' = steps + 1
            /\ last' = [NoArgs EXCEPT !.op = "clear"]
            /\ history' = <<>>
            /\ Saved(history', w)
            /\ Rendered(history', display_count, text)
            /\ UNCHANGED <<history_type, display_count, text, none_as_str>>
       ELSE /\ w = "written"
            /\ UNCHANGED vars

\* line 270 without the cap
AddCountUncapped(dc, n) == dc + 1

\* line 270 without the increment
AddCountNoIncrement(dc, n) == Min(dc, n)

\* line 270
AddCount(dc, n) == Min(dc + 1, n)

\* add_to_history
add_to_history(u, s, w) ==
    /\ ~fault
    /\ steps < MaxSteps
    /\ steps' = steps + 1
    /\ last' = [op |-> "add", idx |-> 0, url |-> u, status |-> s]
    /\ history' = Append(history, Rec(u, s))
    /\ Saved(history', w)
    /\ display_count' = AddCount(display_count, Len(history'))
    /\ Rendered(history', display_count', text)
    /\ UNCHANGED <<history_type, text, none_as_str>>

\* line 257 comparing the url alone
SameUrl(h, to_del) == GetUrl(h) = GetUrl(to_del)

\* line 257: h and to_del have the same url and status
SameRecord(h, to_del) ==
    GetUrl(h) = GetUrl(to_del) /\ GetStatus(h) = GetStatus(to_del)

\* lines 256-259: the index (from 1) the loop pops, 0 when it pops nothing
FirstMatch(h, to_del) ==
    LET at == {i \in 1..Len(h) : h[i].isdict /\ SameRecord(h[i], to_del)}
    IN  IF at = {} THEN 0 ELSE CHOOSE i \in at : \A j \in at : i <= j

\* line 257: h.get raises on an element that is not a dict and that the
\* loop reaches before it breaks
ScanRaises(h, to_del) ==
    \E i \in 1..Len(h) :
        /\ ~h[i].isdict
        /\ FirstMatch(h, to_del) \in {0} \cup (i + 1)..Len(h)

\* line 261
DeleteCount(dc, n) == Min(dc, n)

\* delete_callback
delete_callback(view_idx, w) ==
    /\ ~fault
    /\ steps < MaxSteps
    /\ LET q == Query(text)
           show == ShowItems(history, display_count, q)
           to_del == show[view_idx + 1]
           i == FirstMatch(history, to_del)
       IN  IF ShowItemsRaises(history, display_count, q)
           THEN /\ w = "written"
                /\ last' = [NoArgs EXCEPT !.op = "delete", !.idx = view_idx]
                /\ steps' = steps + 1
                /\ fault' = TRUE
                /\ UNCHANGED <<file, history, history_type, display_count, text,
                               table, load_more, empty_label, write_failed,
                               none_as_str>>
           ELSE IF ~(0 <= view_idx /\ view_idx < Len(show))
           THEN /\ w = "written"
                /\ UNCHANGED vars
           ELSE IF ScanRaises(history, to_del)
           THEN /\ w = "written"
                /\ last' = [NoArgs EXCEPT !.op = "delete", !.idx = view_idx]
                /\ steps' = steps + 1
                /\ fault' = TRUE
                /\ UNCHANGED <<file, history, history_type, display_count, text,
                               table, load_more, empty_label, write_failed,
                               none_as_str>>
           ELSE /\ last' = [NoArgs EXCEPT !.op = "delete", !.idx = view_idx]
                /\ steps' = steps + 1
                /\ history' = IF i = 0 THEN history ELSE RemoveAt(history, i)
                /\ Saved(history', w)
                /\ display_count' = DeleteCount(display_count, Len(history'))
                /\ Rendered(history', display_count', text)
                /\ UNCHANGED <<history_type, text, none_as_str>>

Next ==
    \/ Restart
    \/ \E t \in SearchTexts : SearchChanged(t)
    \/ show_more_history
    \/ \E yes \in BOOLEAN, w \in WriteOutcomes : clear_history(yes, w)
    \/ \E a \in AddInputs, w \in WriteOutcomes : add_to_history(a[1], a[2], w)
    \/ \E view_idx \in ViewRows(Len(table)), w \in WriteOutcomes :
          delete_callback(view_idx, w)

Spec == Init /\ [][Next]_vars

\* ------------------------------------------------------------------ claims

\* the (url, status) pair of a record as line 257 reads it
PairOf(item) == <<GetUrl(item), GetStatus(item)>>

AllDicts(h) == \A i \in 1..Len(h) : h[i].isdict

\* the last n elements of h, newest first
LastReversed(h, n) == [i \in 1..n |-> h[Len(h) + 1 - i]]

\* a is b with some elements left out, the others in b's order
RECURSIVE IsSubsequence(_, _)
IsSubsequence(a, b) ==
    IF a = <<>> THEN TRUE
    ELSE IF b = <<>> THEN FALSE
    ELSE IF Head(a) = Head(b) THEN IsSubsequence(Tail(a), Tail(b))
    ELSE IsSubsequence(a, Tail(b))

\* row j of the table holds the string q, lower-cased, in its url or status
RowHolds(j, q) ==
    \/ Contains(Lower(q), Lower(GetUrlOrEmpty(table[j]).v))
    \/ Contains(Lower(q), Lower(GetStatusOrEmpty(table[j]).v))

\* C1: a delete at a row of the table, on a store whose elements are all
\* records, removes exactly one element of history: the one of lowest index
\* whose (url, status) pair is that of the row; the others keep their order.
C1_DeleteRemovesFirstMatch ==
    [][ ( /\ steps' = steps + 1
          /\ last'.op = "delete"
          /\ AllDicts(history) )
        => \E i \in 1..Len(history) :
              /\ PairOf(history[i]) = PairOf(table[last'.idx + 1])
              /\ \A j \in 1..(i - 1) :
                    PairOf(history[j]) # PairOf(table[last'.idx + 1])
              /\ history' = RemoveAt(history, i) ]_vars

\* C1 witness: records [a, b, c], the newest row (c) deleted, [a, b] left
C1_Witness ==
    /\ last.op = "delete"
    /\ last.idx = 0
    /\ steps = 1
    /\ history = <<Rec(uA, sOk), Rec(uB, sB)>>

\* C2: with an empty search text and 0 <= display_count <= len(history), the
\* view is exactly the last display_count records, newest first.
C2_PageIsLastReversed ==
    ( /\ ~fault
      /\ text = <<>>
      /\ 0 <= display_count
      /\ display_count <= Len(history) )
    => table = LastReversed(history, display_count)

\* C2 witness: a rendered page shorter than the store
C2_Witness ==
    /\ ~fault
    /\ text = <<>>
    /\ 0 < display_count
    /\ display_count < Len(history)
    /\ Len(table) = display_count

\* C3 as stated: while a search is active every record of history that
\* matches the search is in the view.
C3_FullFilteredSetShown ==
    ( ~fault /\ Query(text) # <<>> )
    => \A i \in 1..Len(history) :
          ( history[i].isdict /\ Matches(history[i], Query(text)) )
          => \E j \in 1..Len(table) : table[j] = history[i]

\* C4 as stated: every record in the view holds text.lower(), the search
\* text as typed, in its lower-cased url or status.
C4_RowsHoldTextAsTyped ==
    ~fault => \A j \in 1..Len(table) : RowHolds(j, text)

\* C4 amended: every record in the view holds text.strip().lower() in its
\* lower-cased url or status (an absent field read as ""), and the view keeps
\* the order of the reversed page.
C4_RowsHoldStrippedText ==
    ~fault =>
        /\ \A j \in 1..Len(table) : RowHolds(j, Strip(text))
        /\ IsSubsequence(table, LastReversed(history,
                                    IF display_count = 0 THEN Len(history)
                                    ELSE Min(display_count, Len(history))))

\* C4 witness: a search typed with blanks and in upper case that leaves some
\* records of the page in the view and some out
C4_Witness ==
    /\ ~fault
    /\ text = <<" ", "A", " ">>
    /\ table # <<>>
    /\ Len(table) < Len(history)

\* C5 as stated: load never lets a fault out, and leaves history a list and
\* display_count at MAX_VISIBLE.
C5_LoadNeverFaults ==
    last.op = "load" =>
        /\ ~fault
        /\ history_type = "list"
        /\ display_count = MAX_VISIBLE

\* C6 as stated: every record of history has a url and a status, neither
\* null.
C6_FieldsPresent ==
    \A i \in 1..Len(history) :
        history[i].isdict =>
            /\ history[i].url.k = "str"
            /\ history[i].status.k = "str"

\* C7: after an add, an in-bounds delete or a confirmed clear, with no write
\* failure since start-up, the file is a JSON array that json.load turns
\* into history; and starting the program again on it gives the same
\* history.
C7_FileRoundTrip ==
    [][ /\ ( /\ steps' = steps + 1
             /\ last'.op \in {"add", "delete", "clear"}
             /\ ~write_failed' )
           => /\ file'.kind = "json"
              /\ file'.top = "array"
              /\ JsonLoad(file').items = history'
        /\ ( /\ last.op \in {"add", "delete", "clear"}
             /\ ~write_failed
             /\ last'.op = "load" )
           => /\ history_type' = "list"
              /\ history' = history ]_vars

\* C7 witness: the program started again on the file an add wrote
C7_Witness ==
    /\ last.op = "load"
    /\ steps = 2
    /\ Len(history) = 4
    /\ file = JsonDump(history)

\* C8 as stated: the load-more button shows iff display_count < len(history)
\* and the search text is empty.
C8_LoadMoreIffTextEmpty ==
    ~fault => (load_more <=> (display_count < Len(history) /\ text = <<>>))

\* C8 amended: the load-more button shows iff display_count < len(history)
\* and the search text is empty once stripped of surrounding whitespace.
C8_LoadMoreIffStrippedTextEmpty ==
    ~fault =>
        (load_more <=> (display_count < Len(history) /\ Strip(text) = <<>>))

\* C8 witness: a search is active on a store longer than the page, rows are
\* shown and the button is not
C8_Witness ==
    /\ ~fault
    /\ Strip(text) # <<>>
    /\ display_count < Len(history)
    /\ table # <<>>
    /\ ~load_more

\* C9: add appends {url, status} to history, sets display_count to
\* min(display_count + 1, len(history)), and puts the new record first in
\* the unfiltered view; on an empty store the view of 15 is that one record.
C9_AddAppends ==
    [][ (steps' = steps + 1 /\ last'.op = "add") =>
          LET new == Rec(last'.url, last'.status)
          IN  /\ history' = history \o <<new>>
              /\ display_count' = Min(display_count + 1, Len(history) + 1)
              /\ Page(history', display_count')[1] = new
              /\ text' = <<>> => (~fault' /\ table' # <<>> /\ table'[1] = new)
              /\ history = <<>> => Page(history', MAX_VISIBLE) = <<new>> ]_vars

\* C9 witness: one record added to an empty store and shown alone
C9_Witness ==
    /\ last.op = "add"
    /\ text = <<>>
    /\ history = <<Rec(uA, sOk)>>
    /\ table = history
    /\ display_count = 1

\* C10: display_count is never negative, and is 0 only while history is
\* empty.
C10_CountPositiveUnlessEmpty ==
    /\ display_count >= 0
    /\ display_count = 0 => history = <<>>

\* C10 witness: a delete has emptied the store and taken display_count to 0
C10_Witness ==
    /\ last.op = "delete"
    /\ display_count = 0
    /\ history = <<>>
    /\ empty_label

====
